---- MODULE Spec2Model ----
(***************************************************************************)
(* The datagram transports of lightyear: the WebSocket server              *)
(* (transport/websocket/server.rs), the WebSocket wasm client              *)
(* (transport/websocket/client_wasm.rs) and the WebTransport wasm client   *)
(* (transport/webtransport/client_wasm.rs).  Each transport is a set of    *)
(* I/O tasks and callbacks that talk to the simulation through tokio mpsc  *)
(* channels; the simulation calls send(), recv() and the close function.   *)
(*                                                                         *)
(* A behaviour is the life of ONE transport (one TransportEnum variant,    *)
(* chosen in Init).  Peer addresses: the clients talk to the server, which *)
(* is address 0; the server talks to the peers 1..MaxConns.                *)
(***************************************************************************)
EXTENDS Integers, Sequences, FiniteSets, TLC

\* ---------------------------------------------------------------- bounds
\* Peers that open a TCP connection to the WebSocket server.
MaxConns == 2
\* Frames / datagrams that arrive from the network in one behaviour.
MaxFrames == 2
\* send() calls the simulation makes in one behaviour.
MaxSends == 2

\* ------------------------------------------------------------- constants
\* mpsc::channel(1): the capacity of the close queue.
CloseCapacity == 1
\* The ready state the WebSocket has when it is OPEN (ws_clone.ready_state() != 1).
WsOpenState == 1

ServerAddr == 0
PeerAddrs == 1..MaxConns
AllAddrs == 0..MaxConns

Transports == {"WebSocketServer", "WebSocketClient", "WebTransportClient"}

VARIABLES
    transport,      \* the TransportEnum variant this behaviour runs
    conn,           \* [AllAddrs -> state of the underlying socket/connection]
    accept_pc,      \* position of the server's accept task (server.rs 97-156)
    accept_addr,    \* the addr the accept task is serving (0: none)
    task,           \* [task id -> "unspawned"|"run"|"done"|"cancelled"|"panicked"]
    registry,       \* server: the keys of addr_to_clientbound_tx
    registry_lock,  \* holder of the Mutex around the registry: "free" | "accept"
    inbound,        \* the queue I/O -> simulation (server: serverbound; WebSocket
                    \* client: clientbound; WebTransport client: from_server)
    outbound,       \* [AllAddrs -> the queue simulation -> I/O] (server: one
                    \* clientbound queue per peer; WebSocket client: serverbound;
                    \* WebTransport client: to_server)
    close_queue,    \* number of sentinels waiting in the close queue
    sim,            \* the simulation thread: [pc, addr]
    last,           \* the last call of the simulation and what it returned
    nsend,          \* send() calls made so far (the k-th one carries payload k)
    nframes,        \* frames that arrived so far (the k-th one carries data k)
    arrived,        \* history: the frames the sockets delivered, in arrival order
    returned,       \* history: the datagrams recv() returned, in order
    socket,         \* history, clients: the payloads written to the socket, in
                    \* order, and the payloads queued when the connection opened
    wt_recv,        \* WebTransport client: the datagram the pending
                    \* receive_datagram() has resolved to, not yet forwarded
    observed,       \* history: the tasks that polled and found their queue or
                    \* their socket ended or failed (and, at most, logged it)
    cm,             \* the client's connection manager and the example client
                    \* application driving it
    rel,            \* a reliable channel between two peers: sender, datagrams
                    \* in flight and receiver
    clk,            \* the tick clocks of the server and of one client
    pred,           \* the client's prediction engine: inputs and both timelines
    app             \* the example client's frame: the schedule being run, the
                    \* systems run so far, pending ConnectEvents and the entities

\* The state above the transports: it is left alone by every transport step.
core == <<cm, rel, clk, pred, app>>

transportVars ==
    <<transport, conn, accept_pc, accept_addr, task, registry, registry_lock,
      inbound, outbound, close_queue, sim, last, nsend, nframes, arrived,
      returned, observed, wt_recv, socket>>

vars == <<transportVars, core>>

\* What the steps of each part of the core leave alone.
notCm == <<transportVars, rel, clk, pred, app>>
notRel == <<transportVars, cm, clk, pred, app>>
notClk == <<transportVars, cm, rel, pred, app>>
notPred == <<transportVars, cm, rel, clk, app>>
notApp == <<transportVars, cm, rel, clk, pred>>

\* ---------------------------------------------------------------- helpers
IsServer == transport = "WebSocketServer"
IsWsClient == transport = "WebSocketClient"
IsWtClient == transport = "WebTransportClient"

clientbound_handle(a) == <<"clientbound", a>>
serverbound_handle(a) == <<"serverbound", a>>
SendTask == <<"send", ServerAddr>>
RecvTask == <<"recv", ServerAddr>>
CloseTask == <<"close", ServerAddr>>
ConnectTask == <<"connect", ServerAddr>>

\* Every task of every transport; a transport's own tasks are the ones it spawns.
TaskIds ==
    {clientbound_handle(a) : a \in PeerAddrs} \cup {serverbound_handle(a) : a \in PeerAddrs}
        \cup {ConnectTask, RecvTask, SendTask, CloseTask}

\* The wasm clients run the simulation and every task and callback on one
\* thread: while the simulation is parked inside blocking_send nothing else runs.
ThreadFree == sim.pc \notin {"blocked", "panicked"}

\* The simulation still owns the sender, the receiver and the close function.
TransportAlive == sim.pc \notin {"dropped", "panicked"}

\* tokio UnboundedSender::send: fails only when the receiving half is gone;
\* there is no capacity, so it never waits and never refuses a value.
unbounded_send(q, rx_alive, v) ==
    IF rx_alive THEN [res |-> "Ok", q |-> Append(q, v)] ELSE [res |-> "Err", q |-> q]

try_recv_disconnected(q, tx_alive) ==
    IF q # <<>> THEN "Ok" ELSE "Disconnected"

\* tokio UnboundedReceiver::try_recv: never waits.
try_recv(q, tx_alive) ==
    IF q # <<>> THEN "Ok" ELSE IF tx_alive THEN "Empty" ELSE "Disconnected"

\* Some producer end of the inbound queue exists.  Server: the accept task owns
\* serverbound_tx until it dies (a panic unwinds and drops it, and with it the
\* handles of the connection's tasks).  WebSocket client: clientbound_tx lives in
\* on_message_callback, which is forgotten, so it is never dropped.  WebTransport
\* client: from_server_sender lives in the receive task, which never returns (a
\* panic aborts on wasm without running destructors).
InboundTxAlive == IF IsServer THEN accept_pc # "panicked" ELSE TRUE

\* Had on_open_callback kept its own Arc of serverbound_rx (a callback that can
\* run more than once), the WebSocket client's queue would stay open after its
\* sending task has ended.
OutboundRxKeptByCallback(a) ==
    IF IsServer THEN task[clientbound_handle(a)] = "run" ELSE TRUE

\* The consumer end of the outbound queue of address a exists.
OutboundRxAlive(a) ==
    IF IsServer THEN task[clientbound_handle(a)] = "run"
    ELSE IF IsWsClient THEN task[SendTask] \in {"unspawned", "run"}
    ELSE TRUE

\* The consumer end of the close queue exists: it lives in the close task (or,
\* on the WebSocket client, in the closure that would spawn it).
CloseRxAlive == task[CloseTask] # "done"

\* Uint8Array::new(&e.data()).to_vec(): a binary frame (an ArrayBuffer) gives its
\* bytes; a text frame (a string) goes through the TypedArray constructor's
\* length form and gives a zero-filled array, written 0 here, never the bytes of
\* a datagram the peer sent.
ZeroFilled == 0
uint8array_to_vec(kind, data) == IF kind = "Binary" THEN data ELSE ZeroFilled

\* The length of that array: the frame's for a binary frame, and for a text
\* frame the number the text reads as (none for the text modelled here).
uint8array_len(kind, len) == IF kind = "Binary" THEN len ELSE 0

TypeOK ==
    /\ transport \in Transports
    /\ conn \in [AllAddrs -> {"none", "idle", "pending", "handshake", "connecting", "open", "closed"}]
    /\ accept_pc \in {"none", "accept", "handshake", "locked_insert", "serving", "closed", "locked_remove",
                     "panicked"}
    /\ accept_addr \in AllAddrs
    /\ task \in [TaskIds -> {"unspawned", "run", "done", "cancelled", "panicked"}]
    /\ registry \subseteq PeerAddrs
    /\ registry_lock \in {"free", "accept"}
    /\ close_queue \in 0..CloseCapacity
    /\ sim.pc \in {"run", "lock_wait", "blocked", "dropped", "panicked"}
    /\ sim.addr \in AllAddrs
    /\ last.op \in {"none", "send", "recv", "close"}
    /\ last.res \in {"-", "Ok", "None", "Some", "Err", "Panic"}
    /\ nsend \in 0..MaxSends
    /\ nframes \in 0..MaxFrames

\* The connection manager before the application has started.
CmInit ==
    cm = [state |-> "Disconnected", client_id |-> 0, handshakes |-> 0,
          reason |-> "None", connects |-> 0, app |-> "startup",
          events |-> <<>>, emitted |-> <<>>, players |-> 0]

\* The transport right after connect() has built it.
TransportInit ==
    /\ conn = [a \in AllAddrs |->
                 IF IsServer THEN (IF a = ServerAddr THEN "none" ELSE "idle")
                 ELSE (IF a = ServerAddr THEN "connecting" ELSE "none")]
    /\ accept_pc = IF IsServer THEN "accept" ELSE "none"
    /\ accept_addr = 0
    \* WebTransport: connect() spawns its four tasks.
    /\ task = [t \in TaskIds |->
                 IF IsWtClient /\ t \in {ConnectTask, RecvTask, SendTask, CloseTask}
                 THEN "run" ELSE "unspawned"]
    /\ registry = {}
    /\ registry_lock = "free"
    /\ inbound = <<>>
    /\ outbound = [a \in AllAddrs |-> <<>>]
    /\ close_queue = 0
    /\ sim = [pc |-> "run", addr |-> 0]
    /\ last = [op |-> "none", res |-> "-"]
    /\ nsend = 0
    /\ nframes = 0
    /\ arrived = <<>>
    /\ returned = <<>>
    /\ observed = {}
    /\ wt_recv = <<>>
    /\ socket = [written |-> <<>>, backlog |-> 0]

\* 16-bit wrapping counters (ticks, packet sequences, message ids) and their
\* comparison modulo 2^16 with a signed window.
Wrap == 65536
wrapping_add(a, n) == (a + n) % Wrap
wrapping_diff(a, b) ==
    LET d == (a - b) % Wrap IN IF d >= Wrap \div 2 THEN d - Wrap ELSE d

\* The reliable channel before anything was sent; the counters start just
\* below the wrap.
RelInit ==
    rel = [queue |-> <<>>, next_mid |-> Wrap - 1, next_seq |-> Wrap - 1,
           sent |-> {}, acked |-> {}, highest_acked |-> -1, nmsg |-> 0, npkt |-> 0,
           wire |-> {}, acks |-> {},
           rx_highest |-> -1, rx_seen |-> {}, rx_mids |-> {}, delivered |-> <<>>]

\* input_lead_ticks: how far ahead of the server's tick the client aims to run.
InputLead == 2

\* The clocks once the client is synchronized: the server's tick is just below
\* the wrap, the client runs input_lead_ticks ahead of it, and the state the
\* client was given is the server's current one.
ClkInit ==
    clk = [server_tick |-> Wrap - 2, client_tick |-> wrapping_add(Wrap - 2, InputLead),
           prev_tick |-> wrapping_add(Wrap - 2, InputLead),
           server_confirmed_tick |-> Wrap - 2, resync |-> FALSE, time |-> 0]

\* The predicted entities and the values of their replicated component.
Entities == {1, 2}
Values == 0..2
Spawned == [e \in Entities |-> 0]

\* The prediction engine at the tick the entities were spawned: both timelines
\* hold the spawned state.  Timelines are sequences whose i-th slot is tick
\* i - 1; an empty confirmed slot is <<>>.
PredInit ==
    pred = [tick |-> 0, inputs |-> <<>>, predicted |-> <<Spawned>>,
            confirmed |-> <<Spawned>>, reconciled |-> -1, rollbacks |-> 0,
            confirms |-> 0]

\* The example client's entities: the owner's id, whether the entity is the
\* Predicted copy, the pressed actions of its ActionState and its velocity.
AppEntities == {"e1", "e2"}
PlayerIds == {"local", "other"}
PressedSets == {{}, {"Up"}, {"Left", "Up"}}
EntityStart ==
    [player_id : PlayerIds, predicted : BOOLEAN, pressed : PressedSets,
     velocity : {<<0, 0>>}]

\* The first frame of the example client with the entity table es.
AppStart(es) ==
    [schedule |-> "PreUpdate", ran |-> <<>>, fixed |-> 0, events |-> 0,
     emitted |-> 0, players |-> 0, frames |-> 0, entities |-> es]

\* One predicted entity of the local player, holding Up, and an entity of
\* another player that is not predicted.
AppInit ==
    app = AppStart([e \in AppEntities |->
                 IF e = "e1"
                 THEN [player_id |-> "local", predicted |-> TRUE,
                       pressed |-> {"Up"}, velocity |-> <<0, 0>>]
                 ELSE [player_id |-> "other", predicted |-> FALSE,
                       pressed |-> {}, velocity |-> <<0, 0>>]])

Init ==
    /\ transport \in Transports
    /\ TransportInit
    /\ CmInit
    /\ RelInit
    /\ ClkInit
    /\ PredInit
    /\ AppInit

\* ------------------------------------------------- the WebSocket server
\* A peer opens a TCP connection; it waits in the listener's backlog.  The peers
\* are numbered in the order in which they connect.
PeerConnect(a) ==
    /\ IsServer
    /\ conn[a] = "idle"
    /\ \A b \in PeerAddrs : b < a => conn[b] # "idle"
    /\ conn' = [conn EXCEPT ![a] = "pending"]
    /\ UNCHANGED <<core, socket, wt_recv, transport, accept_pc, accept_addr, task, registry, registry_lock,
                   inbound, outbound, close_queue, sim, last, nsend, nframes,
                   arrived, returned, observed>>

\* The peer (or the network) closes an established connection.
PeerClose(a) ==
    /\ IsServer
    /\ conn[a] = "open"
    /\ conn' = [conn EXCEPT ![a] = "closed"]
    /\ UNCHANGED <<core, socket, wt_recv, transport, accept_pc, accept_addr, task, registry, registry_lock,
                   inbound, outbound, close_queue, sim, last, nsend, nframes,
                   arrived, returned, observed>>

\* while let Ok((stream, addr)) = listener.accept().await: the listener hands
\* out the waiting connections oldest first.
ListenerAccept(a) ==
    /\ IsServer
    /\ accept_pc = "accept"
    /\ conn[a] = "pending"
    /\ \A b \in PeerAddrs : b < a => conn[b] # "pending"
    /\ accept_pc' = "handshake"
    /\ accept_addr' = a
    /\ conn' = [conn EXCEPT ![a] = "handshake"]
    /\ UNCHANGED <<core, socket, wt_recv, transport, task, registry, registry_lock, inbound, outbound,
                   close_queue, sim, last, nsend, nframes, arrived, returned, observed>>

\* accept_async(stream).await succeeds; the task creates the clientbound channel,
\* splits the stream and takes the registry's lock (no await in between).
HandshakeOk ==
    /\ IsServer
    /\ accept_pc = "handshake"
    /\ registry_lock = "free"
    /\ conn' = [conn EXCEPT ![accept_addr] = "open"]
    /\ outbound' = [outbound EXCEPT ![accept_addr] = <<>>]
    /\ accept_pc' = "locked_insert"
    /\ registry_lock' = "accept"
    /\ UNCHANGED <<core, socket, wt_recv, transport, accept_addr, task, registry, inbound, close_queue,
                   sim, last, nsend, nframes, arrived, returned, observed>>

\* accept_async(stream).await fails: .expect(...) panics inside the accept task.
HandshakeFail ==
    /\ IsServer
    /\ accept_pc = "handshake"
    /\ conn' = [conn EXCEPT ![accept_addr] = "closed"]
    /\ accept_pc' = "panicked"
    /\ UNCHANGED <<core, socket, wt_recv, transport, accept_addr, task, registry, registry_lock, inbound,
                   outbound, close_queue, sim, last, nsend, nframes, arrived,
                   returned, observed>>

\* The tasks the accept task spawns once the entry is in the registry.
SpawnedTasks(a) ==
    [task EXCEPT ![clientbound_handle(a)] = "run", ![serverbound_handle(a)] = "run"]

\* A slip that would spawn the connection's tasks and go back to accept at once.
RegistryInsertDetached ==
    /\ IsServer
    /\ accept_pc = "locked_insert"
    /\ registry' = registry \cup {accept_addr}
    /\ registry_lock' = "free"
    /\ task' = SpawnedTasks(accept_addr)
    /\ accept_pc' = "accept"
    /\ accept_addr' = 0
    /\ UNCHANGED <<core, socket, wt_recv, transport, conn, inbound, outbound, close_queue, sim, last,
                   nsend, nframes, arrived, returned, observed>>

\* A slip that would keep the MutexGuard alive while the connection is served.
RegistryInsertKeepsLock ==
    /\ IsServer
    /\ accept_pc = "locked_insert"
    /\ registry' = registry \cup {accept_addr}
    /\ task' = SpawnedTasks(accept_addr)
    /\ accept_pc' = "serving"
    /\ UNCHANGED <<core, socket, wt_recv, transport, conn, accept_addr, registry_lock, inbound, outbound,
                   close_queue, sim, last, nsend, nframes, arrived, returned,
                   observed>>

\* clientbound_tx_map.lock().unwrap().insert(addr, clientbound_tx); the guard is
\* released at the end of the statement; then both tasks are spawned and the
\* accept task awaits or(clientbound_handle, serverbound_handle).
RegistryInsert ==
    /\ IsServer
    /\ accept_pc = "locked_insert"
    /\ registry' = registry \cup {accept_addr}
    /\ registry_lock' = "free"
    /\ task' = SpawnedTasks(accept_addr)
    /\ accept_pc' = "serving"
    /\ UNCHANGED <<core, socket, wt_recv, transport, conn, accept_addr, inbound, outbound, close_queue,
                   sim, last, nsend, nframes, arrived, returned, observed>>

\* The clientbound task: while let Some(msg) = clientbound_rx.recv().await
\* { write.send(msg).await.map_err(..).unwrap(); }  write.close().await
\* recv() yields None only once every sender is gone, and the only sender sits
\* in the registry.
ClientboundTask(a) ==
    /\ IsServer
    /\ task[clientbound_handle(a)] = "run"
    /\ outbound[a] # <<>> \/ a \notin registry
    /\ IF outbound[a] # <<>>
       THEN IF conn[a] = "open"
            THEN /\ outbound' = [outbound EXCEPT ![a] = Tail(@)]
                 /\ UNCHANGED <<task, conn, observed>>
            ELSE \* the write fails: unwrap() panics, the task's channel end is dropped
                 /\ task' = [task EXCEPT ![clientbound_handle(a)] = "panicked"]
                 /\ outbound' = [outbound EXCEPT ![a] = <<>>]
                 /\ observed' = observed \cup {clientbound_handle(a)}
                 /\ UNCHANGED conn
       ELSE /\ task' = [task EXCEPT ![clientbound_handle(a)] = "done"]
            /\ conn' = [conn EXCEPT ![a] = "closed"]
            /\ observed' = observed \cup {clientbound_handle(a)}
            /\ UNCHANGED outbound
    /\ UNCHANGED <<core, socket, wt_recv, transport, accept_pc, accept_addr, registry, registry_lock,
                   inbound, close_queue, sim, last, nsend, nframes, arrived,
                   returned>>

\* The messages a peer sends: binary ones, and the others (Text stands for
\* Text, Ping, Pong and Close, which recv() treats alike).
FrameKinds == {"Binary", "Text"}

\* The size of the receivers' buffer: buffer: [u8; MTU].
MTU == 1200

\* The frames a WebSocket peer sends: a binary one that fits the buffer, a binary
\* one that is longer than it (a WebSocket message is not limited to MTU bytes),
\* and one that is not binary.
Frames ==
    {[kind |-> "Binary", len |-> 1], [kind |-> "Binary", len |-> MTU + 1],
     [kind |-> "Text", len |-> 1]}

\* The serverbound task reads a frame: Some(Ok(msg)) => serverbound_tx.send((addr,
\* msg)), whose error (the receiver is gone) is only logged.
ServerboundTaskRead(a, frame) ==
    /\ IsServer
    /\ task[serverbound_handle(a)] = "run"
    /\ conn[a] = "open"
    /\ nframes < MaxFrames
    /\ nframes' = nframes + 1
    /\ LET msg == [addr |-> a, kind |-> frame.kind, data |-> nframes + 1,
                   len |-> frame.len]
           r == unbounded_send(inbound, TransportAlive, msg)
       IN /\ arrived' = Append(arrived, msg)
          /\ inbound' = r.q
          /\ observed' = IF r.res = "Err" THEN observed \cup {serverbound_handle(a)}
                         ELSE observed
    /\ UNCHANGED <<core, socket, wt_recv, transport, conn, accept_pc, accept_addr, task, registry,
                   registry_lock, outbound, close_queue, sim, last, nsend,
                   returned>>

\* read.next().await yields None once the socket is closed: the loop ends.
ServerboundTaskEnd(a) ==
    /\ IsServer
    /\ task[serverbound_handle(a)] = "run"
    /\ conn[a] = "closed"
    /\ task' = [task EXCEPT ![serverbound_handle(a)] = "done"]
    /\ observed' = observed \cup {serverbound_handle(a)}
    /\ UNCHANGED <<core, socket, wt_recv, transport, conn, accept_pc, accept_addr, registry, registry_lock,
                   inbound, outbound, close_queue, sim, last, nsend, nframes,
                   arrived, returned>>

\* Dropping a task handle cancels the task.
DropHandle(pc) == IF pc = "run" THEN "cancelled" ELSE pc

DroppedHandles(a) ==
    [task EXCEPT ![clientbound_handle(a)] = DropHandle(@),
                 ![serverbound_handle(a)] = DropHandle(@)]

\* or(clientbound_handle, serverbound_handle).await returns: one of the two tasks
\* finished.  Both handles are dropped, which cancels the other task and drops
\* both halves of the stream and the consumer end of the clientbound queue.
ConnectionClosed ==
    /\ IsServer
    /\ accept_pc = "serving"
    /\ task[clientbound_handle(accept_addr)] # "panicked"
    /\ \/ task[clientbound_handle(accept_addr)] = "done"
       \/ task[serverbound_handle(accept_addr)] = "done"
    /\ task' = DroppedHandles(accept_addr)
    /\ conn' = [conn EXCEPT ![accept_addr] = "closed"]
    /\ outbound' = [outbound EXCEPT ![accept_addr] = <<>>]
    /\ accept_pc' = "closed"
    /\ UNCHANGED <<core, socket, wt_recv, transport, accept_addr, registry, registry_lock, inbound,
                   close_queue, sim, last, nsend, nframes, arrived, returned, observed>>

\* info!("Connection with {} closed", addr); clientbound_tx_map.lock(): the
\* accept task, on its own thread, takes the registry's lock.
RegistryRemoveLock ==
    /\ IsServer
    /\ accept_pc = "closed"
    /\ registry_lock = "free"
    /\ accept_pc' = "locked_remove"
    /\ registry_lock' = "accept"
    /\ UNCHANGED <<core, socket, wt_recv, transport, conn, accept_addr, task, registry, inbound,
                   outbound, close_queue, sim, last, nsend, nframes, arrived, returned,
                   observed>>

\* The clientbound task panicked: awaiting its handle panics the accept task,
\* whose unwinding drops the other handle and the stream.
AcceptTaskPanics ==
    /\ IsServer
    /\ accept_pc = "serving"
    /\ task[clientbound_handle(accept_addr)] = "panicked"
    /\ task' = DroppedHandles(accept_addr)
    /\ conn' = [conn EXCEPT ![accept_addr] = "closed"]
    /\ accept_pc' = "panicked"
    /\ UNCHANGED <<core, socket, wt_recv, transport, accept_addr, registry, registry_lock, inbound,
                   outbound, close_queue, sim, last, nsend, nframes, arrived,
                   returned, observed>>

\* clientbound_tx_map.lock().unwrap().remove(&addr); back to listener.accept().
RegistryRemove ==
    /\ IsServer
    /\ accept_pc = "locked_remove"
    /\ registry' = registry \ {accept_addr}
    /\ registry_lock' = "free"
    /\ accept_pc' = "accept"
    /\ accept_addr' = 0
    /\ UNCHANGED <<core, socket, wt_recv, transport, conn, task, inbound, outbound, close_queue, sim,
                   last, nsend, nframes, arrived, returned, observed>>

\* ------------------------------------------------- the WebSocket client
\* ws.ready_state(): CONNECTING 0, OPEN 1, CLOSED 3.
ready_state == IF conn[ServerAddr] = "connecting" THEN 0
               ELSE IF conn[ServerAddr] = "open" THEN WsOpenState ELSE 3

\* The open event: on_open_callback spawns the sending task.
WsOpen ==
    /\ IsWsClient /\ ThreadFree
    /\ conn[ServerAddr] = "connecting"
    /\ conn' = [conn EXCEPT ![ServerAddr] = "open"]
    /\ task' = [task EXCEPT ![SendTask] = "run"]
    /\ socket' = [socket EXCEPT !.backlog = Len(outbound[ServerAddr])]
    /\ UNCHANGED <<core, wt_recv, transport, accept_pc, accept_addr, registry, registry_lock,
                   inbound, outbound, close_queue, sim, last, nsend, nframes,
                   arrived, returned, observed>>

\* The message event: on_message_callback converts e.data() and sends it on
\* clientbound_tx; .expect(...) traps when the receiver is gone.
on_message_callback(frame) ==
    /\ IsWsClient /\ ThreadFree
    /\ conn[ServerAddr] = "open"
    /\ nframes < MaxFrames
    /\ nframes' = nframes + 1
    /\ LET msg == [addr |-> ServerAddr, kind |-> "Binary",
                   data |-> uint8array_to_vec(frame.kind, nframes + 1),
                   len |-> uint8array_len(frame.kind, frame.len)]
           r == unbounded_send(inbound, TransportAlive, msg)
       IN /\ arrived' = Append(arrived, [addr |-> ServerAddr, kind |-> frame.kind,
                                         data |-> nframes + 1, len |-> frame.len])
          /\ inbound' = r.q
    /\ UNCHANGED <<core, socket, wt_recv, transport, conn, accept_pc, accept_addr, task, registry,
                   registry_lock, outbound, close_queue, sim, last, nsend,
                   returned, observed>>

\* The close event (after a failed connection attempt, an error or a close by
\* the server; an error event is always followed by it): on_error_callback and
\* on_close_callback only log.
on_close_callback ==
    /\ IsWsClient /\ ThreadFree
    /\ conn[ServerAddr] \in {"connecting", "open"}
    /\ conn' = [conn EXCEPT ![ServerAddr] = "closed"]
    /\ UNCHANGED <<core, socket, wt_recv, transport, accept_pc, accept_addr, task, registry, registry_lock,
                   inbound, outbound, close_queue, sim, last, nsend, nframes,
                   arrived, returned, observed>>

\* The sending task: while let Some(msg) = serverbound_rx.lock().await.recv().await
\* { if ws_clone.ready_state() != 1 { break; } ws_clone.send_with_u8_array(&msg) }
\* When the task ends, serverbound_rx is dropped with it.
WsSendTask ==
    /\ IsWsClient /\ ThreadFree
    /\ task[SendTask] = "run"
    /\ outbound[ServerAddr] # <<>> \/ ~TransportAlive
    /\ IF outbound[ServerAddr] # <<>>
       THEN IF ready_state # WsOpenState
            THEN /\ task' = [task EXCEPT ![SendTask] = "done"]
                 /\ outbound' = [outbound EXCEPT ![ServerAddr] = <<>>]
                 /\ observed' = observed \cup {SendTask}
                 /\ UNCHANGED socket
            ELSE /\ outbound' = [outbound EXCEPT ![ServerAddr] = Tail(@)]
                 /\ socket' = [socket EXCEPT
                                 !.written = Append(@, Head(outbound[ServerAddr]))]
                 /\ UNCHANGED <<task, observed>>
       ELSE /\ task' = [task EXCEPT ![SendTask] = "done"]
            /\ observed' = observed \cup {SendTask}
            /\ UNCHANGED <<outbound, socket>>
    /\ UNCHANGED <<core, wt_recv, transport, conn, accept_pc, accept_addr, registry, registry_lock,
                   inbound, close_queue, sim, last, nsend, nframes, arrived,
                   returned>>

\* --------------------------------------------- the WebTransport client
\* Tasks that did not await the connection would run from the moment connect()
\* spawned them.
HasConnectionAtSpawn == TRUE

\* The connection reached the three tasks through the oneshot channels.
HasConnection == task[ConnectTask] = "done"

\* endpoint.connect(..).await and wait_connect().await succeed; the connection is
\* sent to the three tasks.
WtConnected ==
    /\ IsWtClient /\ ThreadFree
    /\ task[ConnectTask] = "run"
    /\ conn[ServerAddr] = "connecting"
    /\ conn' = [conn EXCEPT ![ServerAddr] = "open"]
    /\ task' = [task EXCEPT ![ConnectTask] = "done"]
    /\ socket' = [socket EXCEPT !.backlog = Len(outbound[ServerAddr])]
    /\ UNCHANGED <<core, wt_recv, transport, accept_pc, accept_addr, registry, registry_lock,
                   inbound, outbound, close_queue, sim, last, nsend, nframes,
                   arrived, returned, observed>>

\* The connection attempt fails: .expect("failed to connect to server") traps;
\* the oneshot senders are never used and never dropped.
WtConnectFails ==
    /\ IsWtClient /\ ThreadFree
    /\ task[ConnectTask] = "run"
    /\ conn[ServerAddr] = "connecting"
    /\ conn' = [conn EXCEPT ![ServerAddr] = "closed"]
    /\ task' = [task EXCEPT ![ConnectTask] = "panicked"]
    /\ UNCHANGED <<core, socket, wt_recv, transport, accept_pc, accept_addr, registry, registry_lock,
                   inbound, outbound, close_queue, sim, last, nsend, nframes,
                   arrived, returned, observed>>

\* The server or the network ends the established connection.
WtConnectionLost ==
    /\ IsWtClient /\ ThreadFree
    /\ conn[ServerAddr] = "open"
    /\ conn' = [conn EXCEPT ![ServerAddr] = "closed"]
    /\ UNCHANGED <<core, socket, wt_recv, transport, accept_pc, accept_addr, task, registry, registry_lock,
                   inbound, outbound, close_queue, sim, last, nsend, nframes,
                   arrived, returned, observed>>

\* A datagram arrives on the connection and resolves the receive task's pending
\* connection.receive_datagram() (a QUIC datagram is bounded by the path's MTU).
WtDatagramArrives ==
    /\ IsWtClient
    /\ task[RecvTask] = "run"
    /\ HasConnection
    /\ conn[ServerAddr] = "open"
    /\ wt_recv = <<>>
    /\ nframes < MaxFrames
    /\ nframes' = nframes + 1
    /\ LET msg == [addr |-> ServerAddr, kind |-> "Binary", data |-> nframes + 1,
                   len |-> 1]
       IN /\ arrived' = Append(arrived, msg)
          /\ wt_recv' = <<msg>>
    /\ UNCHANGED <<core, socket, transport, conn, accept_pc, accept_addr, task, registry,
                   registry_lock, inbound, outbound, close_queue, sim, last, nsend,
                   returned, observed>>

\* The receive task resumes: Ok(data) => from_server_sender.send(data).unwrap(),
\* which traps when the receiver is gone.
WtReceiveDatagram ==
    /\ IsWtClient /\ ThreadFree
    /\ task[RecvTask] = "run"
    /\ wt_recv # <<>>
    /\ LET r == unbounded_send(inbound, TransportAlive, Head(wt_recv))
       IN /\ inbound' = r.q
          /\ task' = IF r.res = "Err" THEN [task EXCEPT ![RecvTask] = "panicked"]
                     ELSE task
    /\ wt_recv' = <<>>
    /\ UNCHANGED <<core, socket, transport, conn, accept_pc, accept_addr, registry, registry_lock,
                   outbound, close_queue, sim, last, nsend, nframes, arrived,
                   returned, observed>>

\* The receive task on a closed connection: Err(e) => error!(..), and the loop
\* goes on.
WtReceiveError ==
    /\ IsWtClient /\ ThreadFree
    /\ task[RecvTask] = "run"
    /\ HasConnection
    /\ conn[ServerAddr] = "closed"
    /\ observed' = observed \cup {RecvTask}
    /\ UNCHANGED <<core, socket, wt_recv, transport, conn, accept_pc, accept_addr, task, registry,
                   registry_lock, inbound, outbound, close_queue, sim, last,
                   nsend, nframes, arrived, returned>>

\* One future selecting over receive and send would cancel the receive branch
\* whenever a send became ready, and with it the datagram it resolved to.
ReceiveFutureCancelled == wt_recv' = <<>>

\* Receive and send are two futures in two tasks: a send leaves the pending
\* receive_datagram() alone.
ReceiveFutureKept == UNCHANGED wt_recv

\* The send task: loop { if let Some(msg) = to_server_receiver.recv().await
\* { connection.send_datagram(msg).await.unwrap_or_else(|e| error!(..)) } }
\* Once the sender is gone and the queue is empty recv() gives None at once and
\* the loop polls again.
WtSendTask ==
    /\ IsWtClient /\ ThreadFree
    /\ task[SendTask] = "run"
    /\ HasConnection
    /\ outbound[ServerAddr] # <<>> \/ ~TransportAlive
    /\ IF outbound[ServerAddr] # <<>>
       THEN /\ outbound' = [outbound EXCEPT ![ServerAddr] = Tail(@)]
            /\ ReceiveFutureKept
            /\ IF conn[ServerAddr] = "open"
               THEN /\ socket' = [socket EXCEPT
                                    !.written = Append(@, Head(outbound[ServerAddr]))]
                    /\ UNCHANGED observed
               ELSE /\ observed' = observed \cup {SendTask}
                    /\ UNCHANGED socket
       ELSE /\ observed' = observed \cup {SendTask}
            /\ UNCHANGED <<outbound, wt_recv, socket>>
    /\ UNCHANGED <<core, transport, conn, accept_pc, accept_addr, task, registry,
                   registry_lock, inbound, close_queue, sim, last, nsend,
                   nframes, arrived, returned>>

\* ------------------------------------------------ the clients' close task
\* The close task is running and can be polled.  WebTransport: connect() spawns
\* it, and it first awaits the connection.  WebSocket: it is spawned inside
\* listen_close_signal_callback, a closure that is built and forgotten but never
\* registered or called, so the task stays unspawned.
CloseTaskPolls == task[CloseTask] = "run" /\ (IsWtClient => HasConnection)

\* close_rx.recv().await returns (a sentinel, or None once the close function is
\* gone); the task closes the connection and ends.
CloseTaskRun ==
    /\ ~IsServer /\ ThreadFree
    /\ CloseTaskPolls
    /\ close_queue > 0 \/ ~TransportAlive
    /\ close_queue' = IF close_queue > 0 THEN close_queue - 1 ELSE 0
    /\ conn' = [conn EXCEPT ![ServerAddr] = "closed"]
    /\ task' = [task EXCEPT ![CloseTask] = "done"]
    /\ observed' = IF close_queue = 0 THEN observed \cup {CloseTask} ELSE observed
    /\ UNCHANGED <<core, socket, wt_recv, transport, accept_pc, accept_addr, registry, registry_lock,
                   inbound, outbound, sim, last, nsend, nframes, arrived,
                   returned>>

\* ------------------------------------------------------- the simulation
\* The addresses the simulation passes to send().
SendAddrs == IF IsServer THEN PeerAddrs ELSE {ServerAddr}

\* What send(payload, a) queues.  Server: Message::Binary(payload.to_vec()),
\* tagged here with the address the call named; clients: the payload.
Payload(a) == IF IsServer THEN [data |-> nsend + 1, to |-> a] ELSE nsend + 1

\* The branch left commented out in send(): an address without a channel would
\* be an error, Err("unable to find channel for client").
SendResultUnknownIsErr(a) ==
    IF IsServer /\ a \notin registry THEN "Err"
    ELSE unbounded_send(outbound[a], OutboundRxAlive(a), Payload(a)).res

\* What send(payload, a) returns in the current state.  Server: Some(clientbound_tx)
\* => clientbound_tx.send(Message::Binary(..)) with its error mapped to Err, None
\* => Ok(()).  Clients: serverbound_tx.send(..) / to_server_sender.send(..).
SendResult(a) ==
    IF IsServer /\ a \notin registry THEN "Ok"
    ELSE unbounded_send(outbound[a], OutboundRxAlive(a), Payload(a)).res

\* A slip that would look up any open channel instead of the one of the address
\* given: the payload lands on the queue of whoever is registered.
SendBodyAnyChannel(a) ==
    /\ nsend' = nsend + 1
    /\ last' = [op |-> "send", res |-> "Ok"]
    /\ outbound' = [b \in AllAddrs |->
                      IF (IsServer /\ b \in registry) \/ (~IsServer /\ b = a)
                      THEN unbounded_send(outbound[b], OutboundRxAlive(b), Payload(a)).q
                      ELSE outbound[b]]

\* The body of send() once it runs (on the server: under the registry's lock).
SendBody(a) ==
    /\ nsend' = nsend + 1
    /\ last' = [op |-> "send", res |-> SendResult(a)]
    /\ IF IsServer /\ a \notin registry
       THEN UNCHANGED outbound
       ELSE outbound' = [outbound EXCEPT
                           ![a] = unbounded_send(@, OutboundRxAlive(a), Payload(a)).q]

\* A slip that would make send() maintain the registry itself: it drops the
\* entry of a connection whose queue turned out to be closed.
SendPrunesRegistry(a) ==
    registry' = IF last'.res = "Err" THEN registry \ {a} ELSE registry

\* What send() does to the registry: .get(address) only reads it.
SendRegistry(a) == UNCHANGED registry

\* send(payload, address).  On the server it first locks the registry,
\* self.addr_to_clientbound_tx.lock().unwrap(), and waits while the accept task
\* holds the lock.
SimSend(a) ==
    /\ sim.pc = "run"
    /\ a \in SendAddrs
    /\ nsend < MaxSends
    /\ IF IsServer /\ registry_lock # "free"
       THEN /\ sim' = [pc |-> "lock_wait", addr |-> a]
            /\ UNCHANGED <<nsend, last, outbound, registry>>
       ELSE /\ SendBody(a)
            /\ SendRegistry(a)
            /\ UNCHANGED sim
    /\ UNCHANGED <<core, socket, wt_recv, transport, conn, accept_pc, accept_addr, task, registry_lock,
                   inbound, close_queue, nframes, arrived, returned,
                   observed>>

\* The lock is free again: the waiting send() goes on.
SimSendResumes ==
    /\ sim.pc = "lock_wait"
    /\ registry_lock = "free"
    /\ SendBody(sim.addr)
    /\ SendRegistry(sim.addr)
    /\ sim' = [pc |-> "run", addr |-> 0]
    /\ UNCHANGED <<core, socket, wt_recv, transport, conn, accept_pc, accept_addr, task, registry_lock,
                   inbound, close_queue, nframes, arrived, returned,
                   observed>>

\* What recv() hands up for a queued message.  Server: Message::Binary(buf) is
\* returned, Message::Close(..) and every other message give Ok(None).  Clients:
\* the queue holds byte vectors only.
RecvReturns(msg) == IF IsServer THEN msg.kind = "Binary" ELSE TRUE

\* self.buffer[..len].copy_from_slice(..): slicing the MTU-sized buffer beyond
\* its end panics.
copy_from_slice(len) == IF len <= MTU THEN "Ok" ELSE "Panic"

\* What recv() returns in the current state: Ok(Some(..)), Ok(None) or Err, or
\* the panic of the copy.
RecvResult ==
    LET r == try_recv(inbound, InboundTxAlive)
    IN IF r = "Ok"
       THEN (IF RecvReturns(Head(inbound))
             THEN (IF copy_from_slice(Head(inbound).len) = "Ok" THEN "Some" ELSE "Panic")
             ELSE "None")
       ELSE IF r = "Empty" THEN "None" ELSE "Err"

\* A slip that would return the receiver's own server_addr field, as the
\* clients' recv() does.
RecvOwnAddr(m) == ServerAddr

\* The address recv() returns with a datagram.  Server: the addr of the queued
\* (addr, msg) pair; clients: self.server_addr, which every queued message has.
RecvAddr(m) == m.addr

\* recv(): one try_recv() on the inbound queue.  A panic unwinds (or, on wasm,
\* aborts) the simulation thread, and the transport is gone with it.
SimRecv ==
    /\ sim.pc = "run"
    /\ last' = [op |-> "recv", res |-> RecvResult]
    /\ inbound' = IF inbound # <<>> THEN Tail(inbound) ELSE inbound
    /\ returned' = IF RecvResult = "Some"
                   THEN Append(returned, [addr |-> RecvAddr(Head(inbound)),
                                          data |-> Head(inbound).data,
                                          len |-> Head(inbound).len])
                   ELSE returned
    /\ sim' = IF RecvResult = "Panic" THEN [sim EXCEPT !.pc = "panicked"] ELSE sim
    /\ UNCHANGED <<core, socket, wt_recv, transport, conn, accept_pc, accept_addr, task, registry,
                   registry_lock, outbound, close_queue, nsend, nframes,
                   arrived, observed>>

\* tokio mpsc::Sender::blocking_send on the close queue: an error when the
\* receiver is gone, the value queued when there is room, and otherwise the
\* calling thread is parked until there is room.
blocking_send(n, rx_alive) ==
    IF ~rx_alive THEN "Err" ELSE IF n < CloseCapacity THEN "Ok" ELSE "Wait"

\* The close function split() returns: self.close_sender.blocking_send(()).
SimClose ==
    /\ ~IsServer
    /\ sim.pc = "run"
    /\ LET r == blocking_send(close_queue, CloseRxAlive)
       IN /\ close_queue' = IF r = "Ok" THEN close_queue + 1 ELSE close_queue
          /\ sim' = IF r = "Wait" THEN [pc |-> "blocked", addr |-> 0] ELSE sim
          /\ last' = [op |-> "close", res |-> IF r = "Wait" THEN "-" ELSE r]
    /\ UNCHANGED <<core, socket, wt_recv, transport, conn, accept_pc, accept_addr, task, registry,
                   registry_lock, inbound, outbound, nsend, nframes, arrived,
                   returned, observed>>

\* The simulation drops the sender, the receiver and the close function.
SimDrop ==
    /\ sim.pc = "run"
    /\ sim' = [pc |-> "dropped", addr |-> 0]
    /\ inbound' = <<>>
    /\ UNCHANGED <<core, socket, wt_recv, transport, conn, accept_pc, accept_addr, task, registry,
                   registry_lock, outbound, close_queue, last, nsend, nframes,
                   arrived, returned, observed>>

\* ------------------------------------------------------- specification
Next ==
    \/ \E a \in PeerAddrs : PeerConnect(a)
    \/ \E a \in PeerAddrs : PeerClose(a)
    \/ \E a \in PeerAddrs : ListenerAccept(a)
    \/ HandshakeOk
    \/ HandshakeFail
    \/ RegistryInsert
    \/ \E a \in PeerAddrs : ClientboundTask(a)
    \/ \E a \in PeerAddrs, frame \in Frames : ServerboundTaskRead(a, frame)
    \/ \E a \in PeerAddrs : ServerboundTaskEnd(a)
    \/ ConnectionClosed
    \/ RegistryRemoveLock
    \/ AcceptTaskPanics
    \/ RegistryRemove
    \/ WsOpen
    \/ \E frame \in Frames : on_message_callback(frame)
    \/ on_close_callback
    \/ WsSendTask
    \/ WtConnected
    \/ WtConnectFails
    \/ WtConnectionLost
    \/ WtDatagramArrives
    \/ WtReceiveDatagram
    \/ WtReceiveError
    \/ WtSendTask
    \/ CloseTaskRun
    \/ \E a \in AllAddrs : SimSend(a)
    \/ SimSendResumes
    \/ SimRecv
    \/ SimClose
    \/ SimDrop

Spec == Init /\ [][Next]_vars

\* The executors poll every task that can make a step (bevy's IoTaskPool, and
\* wasm_bindgen_futures on wasm); nothing is assumed of the network, of the peers
\* or of when the simulation calls.
TaskFairness ==
    /\ \A a \in PeerAddrs : WF_vars(ListenerAccept(a))
    /\ WF_vars(HandshakeOk \/ HandshakeFail)
    /\ WF_vars(RegistryInsert)
    /\ \A a \in PeerAddrs : WF_vars(ClientboundTask(a))
    /\ \A a \in PeerAddrs : WF_vars(ServerboundTaskEnd(a))
    /\ WF_vars(ConnectionClosed)
    /\ WF_vars(RegistryRemoveLock)
    /\ WF_vars(AcceptTaskPanics)
    /\ WF_vars(RegistryRemove)
    /\ WF_vars(WsSendTask)
    /\ WF_vars(WtReceiveDatagram)
    /\ WF_vars(WtReceiveError)
    /\ WF_vars(WtSendTask)
    /\ WF_vars(CloseTaskRun)
    /\ WF_vars(SimSendResumes)

FairSpec == Spec /\ TaskFairness

\* ---------------------------------------------------------------- claims
\* A step of the simulation thread.
SimStep ==
    \/ \E a \in AllAddrs : SimSend(a)
    \/ SimSendResumes
    \/ SimRecv
    \/ SimClose
    \/ SimDrop

IsPrefix(s, t) == Len(s) <= Len(t) /\ \A i \in 1..Len(s) : s[i] = t[i]

DataOf(s) == [i \in 1..Len(s) |-> s[i].data]

\* The binary datagrams that arrived from peer a, in arrival order.
BinaryArrivedFrom(a) ==
    DataOf(SelectSeq(arrived, LAMBDA m : m.addr = a /\ m.kind = "Binary"))

\* The datagrams recv() returned with address a, in the order of the calls.
ReturnedFrom(a) == DataOf(SelectSeq(returned, LAMBDA m : m.addr = a))

\* C1: recv() never waits.  While the simulation owns the receiver a recv() can
\* always run to its end, and a recv() on an empty inbound queue whose producer
\* side is alive returns Ok(None) and changes neither the queue nor what was
\* handed up so far nor the simulation's position.
C1_RecvNeverWaits ==
    /\ [](sim.pc = "run" => ENABLED SimRecv)
    /\ [][(SimRecv /\ inbound = <<>> /\ InboundTxAlive)
            => /\ last' = [op |-> "recv", res |-> "None"]
               /\ UNCHANGED <<inbound, returned, sim>>]_vars

\* C1: a recv() returned Ok(None) although nothing ever arrived.
C1_Witness ==
    /\ last = [op |-> "recv", res |-> "None"]
    /\ arrived = <<>>
    /\ inbound = <<>>
    /\ InboundTxAlive

\* C2: for every peer, the datagrams recv() returned so far are a prefix of the
\* binary datagrams that arrived from that peer, in the same order.
C2_ArrivalOrder ==
    \A a \in AllAddrs : IsPrefix(ReturnedFrom(a), BinaryArrivedFrom(a))

\* C3: once the close function has put its sentinel on the close queue of a
\* client whose connection is open, an I/O task eventually receives it and
\* closes the connection.
C3_CloseReachesIoTask ==
    (last = [op |-> "close", res |-> "Ok"] /\ conn[ServerAddr] = "open")
        ~> (task[CloseTask] = "done")

\* C4: a task that polled and found its queue or its socket ended has
\* terminated; none is still running.
C4_TasksExitOnEof ==
    \A t \in DOMAIN task : t \in observed => task[t] # "run"

\* C5: the simulation is never parked inside the close function.
C5_CloseNeverBlocks == sim.pc # "blocked"

\* The socket of address a failed or was closed and the I/O side has seen it:
\* the WebSocket client's on_close_callback ran, or a task of the connection
\* observed the end.
SocketFailed(a) ==
    /\ conn[a] = "closed"
    /\ \/ IsWsClient
       \/ \E t \in observed : t[2] = a
       \/ IsWtClient /\ task[ConnectTask] = "panicked"

\* C6: once the socket of a peer has failed and the simulation has taken
\* everything that arrived, the failure reaches the caller: a send() to that
\* peer or a recv() returns Err.
C6_FailurePropagated ==
    \A a \in SendAddrs :
        (SocketFailed(a) /\ inbound = <<>> /\ sim.pc = "run")
            => (SendResult(a) = "Err" \/ RecvResult = "Err")

\* C7 (as claimed): only steps of the simulation thread change the registry.
C7_RegistryOnlyOnSimThread == [][registry' # registry => SimStep]_vars

\* C7 (amended): the registry is changed only by the accept task, when it
\* inserts the entry of a handshaken connection or removes the entry of a
\* finished one; no step of the simulation thread changes it.
C7_RegistryOnlyByAcceptTask ==
    [][registry' # registry
         => /\ RegistryInsert \/ RegistryRemove
            /\ ~SimStep]_vars

\* C7: the simulation sent to a registered peer: the entry the accept task
\* inserted is in use.
C7_Witness ==
    /\ IsServer
    /\ last = [op |-> "send", res |-> "Ok"]
    /\ \E a \in registry : outbound[a] # <<>>

\* The connections whose I/O task wrote into the inbound queue.
InboundWriters == {arrived[i].addr : i \in DOMAIN arrived}

\* The connections that have a running I/O task.
LiveConnections ==
    {a \in PeerAddrs : IsServer /\ (task[serverbound_handle(a)] = "run"
                                    \/ task[clientbound_handle(a)] = "run")}

C9_OutboundBounded == \A a \in AllAddrs : Len(outbound[a]) < MaxSends

\* C10 (as claimed): send() never waits for the registry's lock.
C10_SendNeverWaitsForLock == sim.pc # "lock_wait"

\* C10 (amended): only the server's send() takes a lock, the registry's, which
\* the accept task holds just for one insert or one remove: whenever the
\* accept task holds it, its next step releases it and can be taken at once.
C10_LockHeldOnlyAroundRegistryUpdate ==
    /\ sim.pc = "lock_wait" => IsServer
    /\ ~IsServer => registry_lock = "free"
    /\ registry_lock = "accept"
         => /\ accept_pc \in {"locked_insert", "locked_remove"}
            /\ ENABLED (RegistryInsert \/ RegistryRemove)

\* C10: a send() is waiting for the lock the accept task holds.
C10_Witness == sim.pc = "lock_wait" /\ registry_lock = "accept"

\* C11: the server serves many clients at the same time: a peer b that connects
\* while peer a's connection is open is eventually registered, whether or not a
\* ever disconnects (as long as the transport itself is kept).
C11_ServesManyClients ==
    \A a, b \in PeerAddrs :
        (a # b /\ conn[a] = "open" /\ a \in registry /\ conn[b] = "pending")
            ~> (b \in registry \/ ~TransportAlive)

\* C12: a failed handshake, a read error or a write error on one peer's
\* connection never stops the accept task.
C12_AcceptTaskSurvives == IsServer => accept_pc # "panicked"

\* ------------------------------------------- the connection manager (4.H)
\* The client's connection manager as sections 4.H and 7 describe it, driven by
\* the example client: init calls connect() at startup and handle_connection
\* spawns two players for every ConnectEvent it reads.
ConnStates == {"Disconnected", "Connecting", "Handshaking", "Connected", "Disconnecting"}

\* handshake_retries: how many Handshake messages a connection attempt sends.
HandshakeRetries == 2

\* The identities the server may hand out in HandshakeAck{client_id}.
ClientIds == {1, 2}

\* How many times the application calls connect().
MaxConnects == 2

\* Disconnected + connect() -> Connecting, sending the first Handshake; the
\* design gives connect() no effect in any other state.
connect(c) ==
    IF c.state = "Disconnected"
    THEN [c EXCEPT !.state = "Connecting", !.handshakes = 1, !.client_id = 0,
                   !.reason = "None", !.connects = @ + 1]
    ELSE c

\* Startup system of the example client: let _ = client.connect();
init ==
    /\ cm.app = "startup"
    /\ cm' = [connect(cm) EXCEPT !.app = "running"]
    /\ UNCHANGED notCm

\* A later connect(): reconnection restarts handshake and synchronization.
CmReconnect ==
    /\ cm.app = "running"
    /\ cm.state = "Disconnected"
    /\ cm.connects < MaxConnects
    /\ cm' = connect(cm)
    /\ UNCHANGED notCm

\* Connecting: send Handshake repeatedly up to handshake_retries.
CmResendHandshake ==
    /\ cm.state = "Connecting"
    /\ cm.handshakes < HandshakeRetries
    /\ cm' = [cm EXCEPT !.handshakes = @ + 1]
    /\ UNCHANGED notCm

\* A slip that would treat the HandshakeAck as the end of the handshake.
CmHandshakeAckConnects(id) ==
    /\ cm.state = "Connecting"
    /\ cm' = [cm EXCEPT !.state = "Connected", !.client_id = id]
    /\ UNCHANGED notCm

\* Connecting + valid HandshakeAck{client_id} -> Handshaking.
CmHandshakeAck(id) ==
    /\ cm.state = "Connecting"
    /\ cm' = [cm EXCEPT !.state = "Handshaking", !.client_id = id]
    /\ UNCHANGED notCm

\* Handshaking + SyncResponse: with the RTT within tolerance -> Connected and emit
\* ConnectEvent{client_id}; otherwise the exchange of SyncRequests goes on.
CmSyncResponse(within_tolerance) ==
    /\ cm.state = "Handshaking"
    /\ cm' = IF within_tolerance
             THEN [cm EXCEPT !.state = "Connected",
                             !.events = Append(@, cm.client_id),
                             !.emitted = Append(@, cm.client_id)]
             ELSE cm
    /\ UNCHANGED notCm

\* Connected + timeout (no packet in keepalive_timeout) -> Disconnecting.
CmKeepaliveTimeout ==
    /\ cm.state = "Connected"
    /\ cm' = [cm EXCEPT !.state = "Disconnecting", !.reason = "Timeout"]
    /\ UNCHANGED notCm

\* Section 7: a fatal TransportFailure, propagated to the connection manager,
\* transitions to Disconnecting (there is a transport in use in every state but
\* Disconnected and Disconnecting).
CmTransportFailure ==
    /\ cm.state \in {"Connecting", "Handshaking", "Connected"}
    /\ cm' = [cm EXCEPT !.state = "Disconnecting", !.reason = "TransportFailure"]
    /\ UNCHANGED notCm

\* Disconnecting -> Disconnected.
CmDisconnected ==
    /\ cm.state = "Disconnecting"
    /\ cm' = [cm EXCEPT !.state = "Disconnected"]
    /\ UNCHANGED notCm

\* Any state + explicit disconnect() -> send Disconnect best-effort, then
\* Disconnected.
CmDisconnect ==
    /\ cm.app = "running"
    /\ cm.state # "Disconnected"
    /\ cm' = [cm EXCEPT !.state = "Disconnected", !.reason = "Disconnect"]
    /\ UNCHANGED notCm

\* handle_connection: for event in connection_event.read() { spawn the text and
\* two PlayerBundles for event.client_id() }.
handle_connection ==
    /\ cm.app = "running"
    /\ cm.events # <<>>
    /\ cm' = [cm EXCEPT !.events = <<>>, !.players = @ + 2 * Len(cm.events)]
    /\ UNCHANGED notCm

ConnInit ==
    /\ transport = "WebTransportClient"
    /\ TransportInit
    /\ CmInit
    /\ RelInit
    /\ ClkInit
    /\ PredInit
    /\ AppInit

ConnNext ==
    \/ init
    \/ CmReconnect
    \/ CmResendHandshake
    \/ \E id \in ClientIds : CmHandshakeAck(id)
    \/ \E within_tolerance \in BOOLEAN : CmSyncResponse(within_tolerance)
    \/ CmKeepaliveTimeout
    \/ CmTransportFailure
    \/ CmDisconnected
    \/ CmDisconnect
    \/ handle_connection

ConnSpec == ConnInit /\ [][ConnNext]_vars

\* The transitions of the chain Disconnected -> Connecting -> Handshaking ->
\* Connected -> Disconnecting -> Disconnected.
ChainEdge(s, t) ==
    <<s, t>> \in {<<"Disconnected", "Connecting">>, <<"Connecting", "Handshaking">>,
                  <<"Handshaking", "Connected">>, <<"Connected", "Disconnecting">>,
                  <<"Disconnecting", "Disconnected">>}

\* ConnectEvent{client_id} is emitted exactly in the steps that enter Connected,
\* which happen after connect() was called and carry the id of the HandshakeAck.
ConnectEventOnEntry ==
    IF cm'.state = "Connected" /\ cm.state # "Connected"
    THEN /\ cm'.emitted = Append(cm.emitted, cm'.client_id)
         /\ cm'.client_id \in ClientIds
         /\ cm.connects >= 1
    ELSE cm'.emitted = cm.emitted

\* C13 (as claimed): the state only moves along the chain, or to Disconnected by
\* an explicit disconnect(), and the ConnectEvent is emitted exactly on entering
\* Connected.
C13_OnlyAlongChain ==
    [][/\ cm'.state # cm.state =>
            \/ ChainEdge(cm.state, cm'.state)
            \/ CmDisconnect /\ cm'.state = "Disconnected"
       /\ ConnectEventOnEntry]_vars

\* C13 (amended): as above, plus the transition a fatal transport failure makes
\* from Connecting or Handshaking to Disconnecting.
C13_ChainOrFatalFailure ==
    [][/\ cm'.state # cm.state =>
            \/ ChainEdge(cm.state, cm'.state)
            \/ CmDisconnect /\ cm'.state = "Disconnected"
            \/ /\ CmTransportFailure
               /\ cm.state \in {"Connecting", "Handshaking"}
               /\ cm'.state = "Disconnecting"
       /\ ConnectEventOnEntry]_vars

C13_Witness ==
    /\ cm.state = "Connected"
    /\ cm.connects = 2
    /\ Len(cm.emitted) = 2
    /\ cm.players = 2

\* ------------------------------------------ a reliable channel (4.A, 7)
\* One reliable channel from a sender to a receiver, as section 4.A describes
\* it.  A datagram put on the wire stays in rel.wire: taking it never, once,
\* several times and in any order are loss, delivery, duplication and
\* reordering.  The same holds for the acknowledgements flowing back in rel.acks.

\* Messages the application sends on the channel.
MaxMsgs == 2
\* Packets the sender builds.
MaxPackets == 4
\* The sequences an acknowledgement covers besides its own (ack_bits: u32).
AckWindow == 1

\* The frames of a queue, given their message ids in turn from mid on.
RECURSIVE WithFreshIds(_, _)
WithFreshIds(bodies, mid) ==
    IF bodies = <<>> THEN <<>>
    ELSE <<[mid |-> mid, m |-> Head(bodies)]>>
             \o WithFreshIds(Tail(bodies), wrapping_add(mid, 1))

\* The application sends message m: it gets the channel's next message_id and
\* is queued.
RelSend ==
    /\ rel.nmsg < MaxMsgs
    /\ rel' = [rel EXCEPT !.nmsg = @ + 1,
                          !.queue = Append(@, [mid |-> rel.next_mid, m |-> rel.nmsg + 1]),
                          !.next_mid = wrapping_add(@, 1)]
    /\ UNCHANGED notRel

\* The sender builds a packet: the queued frames, oldest first, under the next
\* packet sequence; it remembers packet_seq -> the messages carried.
RelBuildPacket ==
    /\ rel.npkt < MaxPackets
    /\ LET pkt == [seq |-> rel.next_seq, frames |-> rel.queue]
       IN rel' = [rel EXCEPT !.npkt = @ + 1,
                             !.next_seq = wrapping_add(@, 1),
                             !.queue = <<>>,
                             !.sent = @ \cup {pkt},
                             !.wire = @ \cup {pkt}]
    /\ UNCHANGED notRel

\* The frames of a packet the receiver has not delivered yet (DuplicateMessage
\* is absorbed: a message_id already seen is not delivered again).
RECURSIVE NewFrames(_, _)
NewFrames(frames, seen) ==
    IF frames = <<>> THEN <<>>
    ELSE IF Head(frames).mid \in seen THEN NewFrames(Tail(frames), seen)
    ELSE <<Head(frames)>> \o NewFrames(Tail(frames), seen \cup {Head(frames).mid})

RECURSIVE Bodies(_)
Bodies(frames) ==
    IF frames = <<>> THEN <<>> ELSE <<Head(frames).m>> \o Bodies(Tail(frames))


\* The receiver gets a datagram: a packet outside the ack window is dropped
\* silently; otherwise the sliding ack window is updated and the messages not
\* seen yet are delivered upward.
RelReceive(pkt) ==
    /\ pkt \in rel.wire
    /\ LET old == rel.rx_highest # -1 /\ wrapping_diff(rel.rx_highest, pkt.seq) > AckWindow
           high == IF rel.rx_highest = -1 \/ wrapping_diff(pkt.seq, rel.rx_highest) > 0
                   THEN pkt.seq ELSE rel.rx_highest
           new == NewFrames(pkt.frames, rel.rx_mids)
       IN /\ ~old
          /\ rel' = [rel EXCEPT
                       !.rx_highest = high,
                       !.rx_seen = {q \in @ \cup {pkt.seq} :
                                      wrapping_diff(high, q) \in 0..AckWindow},
                       !.rx_mids = @ \cup {new[i].mid : i \in DOMAIN new},
                       !.delivered = @ \o Bodies(new)]
    /\ UNCHANGED notRel

\* On each sent packet the receiver embeds its current ack and bitfield.
RelSendAck ==
    /\ rel.rx_highest # -1
    /\ rel' = [rel EXCEPT !.acks = @ \cup {[ack |-> rel.rx_highest,
                                             bits |-> rel.rx_seen]}]
    /\ UNCHANGED notRel

\* The unacknowledged packets in order of their sequence, oldest first.
RECURSIVE InSeqOrder(_)
InSeqOrder(pkts) ==
    IF pkts = {} THEN <<>>
    ELSE LET first == CHOOSE x \in pkts :
                         \A y \in pkts : wrapping_diff(y.seq, x.seq) >= 0
         IN <<first>> \o InSeqOrder(pkts \ {first})

RECURSIVE FramesOf(_)
FramesOf(pkts) ==
    IF pkts = <<>> THEN <<>> ELSE Bodies(Head(pkts).frames) \o FramesOf(Tail(pkts))

\* The sender gets an acknowledgement: the messages carried by an acked packet
\* are marked delivered; a packet whose sequence is older than the ack window
\* and was not acked is inferred lost, and the reliable messages it carried are
\* re-queued with a fresh message_id.
RelRecvAck(a) ==
    /\ a \in rel.acks
    /\ LET ackd == {pkt \in rel.sent : pkt.seq \in a.bits}
           lost == {pkt \in rel.sent \ ackd : wrapping_diff(a.ack, pkt.seq) > AckWindow}
           again == WithFreshIds(FramesOf(InSeqOrder(lost)), rel.next_mid)
       IN rel' = [rel EXCEPT
                    !.sent = (@ \ ackd) \ lost,
                    !.acked = @ \cup UNION {{pkt.frames[i].m : i \in DOMAIN pkt.frames} :
                                              pkt \in ackd},
                    !.highest_acked = a.ack,
                    !.queue = @ \o again,
                    !.next_mid = wrapping_add(@, Len(again))]
    /\ UNCHANGED notRel

RelChannelInit ==
    /\ transport = "WebTransportClient"
    /\ TransportInit
    /\ CmInit
    /\ RelInit
    /\ ClkInit
    /\ PredInit
    /\ AppInit

RelNext ==
    \/ RelSend
    \/ RelBuildPacket
    \/ \E pkt \in rel.wire : RelReceive(pkt)
    \/ RelSendAck
    \/ \E a \in rel.acks : RelRecvAck(a)

RelSpec == RelChannelInit /\ [][RelNext]_vars

\* How many times message m was delivered upward.
Deliveries(m) == Cardinality({i \in DOMAIN rel.delivered : rel.delivered[i] = m})

\* Message m is acknowledged, queued, or carried by a packet that is neither
\* acknowledged nor inferred lost yet.
RelTracked(m) ==
    \/ m \in rel.acked
    \/ \E i \in DOMAIN rel.queue : rel.queue[i].m = m
    \/ \E pkt \in rel.sent : \E i \in DOMAIN pkt.frames : pkt.frames[i].m = m

\* C14: under any loss, duplication and reordering, no reliable message is
\* delivered upward more than once, and every message sent is at all times
\* acknowledged or held by the sender for (re)sending.
C14_ExactlyOnce ==
    \A m \in 1..rel.nmsg : Deliveries(m) <= 1 /\ RelTracked(m)

\* ------------------------------------- tick clock and time sync (3, 4.B, 4.E)
\* The server's tick and one client's tick, each advanced by its own
\* fixed-timestep scheduler; nothing ties the two rates together but the
\* client's speed nudging (1-5%) and the resync, so the client may stall (a
\* paused client) or run ahead for any number of server ticks.

\* Server ticks the clocks are followed for.
MaxTime == 8
\* resync_threshold_ticks (default 30, reduced here).
ResyncThreshold == 4

\* The tick the client aims at: its estimate of the server's tick at now plus
\* input_lead_ticks (the estimate is taken to be exact).
TargetTick == wrapping_add(clk.server_tick, InputLead)

\* client_tick - target, compared modulo 2^16 with a signed window.
ClockDelta == wrapping_diff(clk.client_tick, TargetTick)

\* The ticks of the updates the server has sent and the client has not applied.
UnconfirmedTicks ==
    {wrapping_add(clk.server_confirmed_tick, n) :
        n \in 1..wrapping_diff(clk.server_tick, clk.server_confirmed_tick)}

\* The server's scheduler runs one tick and the replication sender emits the
\* update of that tick.
ServerTick ==
    /\ clk.time < MaxTime
    /\ clk' = [clk EXCEPT !.server_tick = wrapping_add(@, 1), !.time = @ + 1,
                          !.prev_tick = clk.client_tick, !.resync = FALSE]
    /\ UNCHANGED notClk

\* Snaps only on |delta| > resync_threshold.
snaps(delta) == delta > ResyncThreshold \/ delta < -ResyncThreshold

\* The replication receiver applies the update of tick t: the confirmed tick
\* moves forward monotonically.
apply_confirmed(t) ==
    IF wrapping_diff(t, clk.server_confirmed_tick) > 0 THEN t
    ELSE clk.server_confirmed_tick

\* One frame of the client: receive -> apply_confirmed -> ... -> simulate.  The
\* clock is speed-nudged, not snapped: it advances by one tick, or by none when
\* it is being slowed down, or by two when it is being sped up.
ClientFrame(t, ticks) ==
    /\ t \in UnconfirmedTicks \cup {clk.server_confirmed_tick}
    /\ ~snaps(ClockDelta)
    /\ ticks = 0 => ClockDelta > 1
    /\ ticks = 2 => ClockDelta < -1
    /\ clk' = [clk EXCEPT !.server_confirmed_tick = apply_confirmed(t),
                          !.client_tick = wrapping_add(@, ticks),
                          !.prev_tick = clk.client_tick, !.resync = FALSE]
    /\ UNCHANGED notClk

\* A frame in which |delta| > resync_threshold: the resync event snaps the
\* clock to its target (and drops pending prediction state and history).
ClientResync(t) ==
    /\ t \in UnconfirmedTicks \cup {clk.server_confirmed_tick}
    /\ snaps(ClockDelta)
    /\ clk' = [clk EXCEPT !.server_confirmed_tick = apply_confirmed(t),
                          !.client_tick = TargetTick,
                          !.prev_tick = clk.client_tick, !.resync = TRUE]
    /\ UNCHANGED notClk

ClockInit ==
    /\ transport = "WebTransportClient"
    /\ TransportInit
    /\ CmInit
    /\ RelInit
    /\ ClkInit
    /\ PredInit
    /\ AppInit

ClockNext ==
    \/ ServerTick
    \/ \E n \in 0..MaxTime, ticks \in 0..2 :
           ClientFrame(wrapping_add(clk.server_confirmed_tick, n), ticks)
    \/ \E n \in 0..MaxTime : ClientResync(wrapping_add(clk.server_confirmed_tick, n))

ClockSpec == ClockInit /\ [][ClockNext]_vars

\* C15: client_tick never decreases from one step to the next except in a step
\* that is an explicit resync, and client_tick >= server_confirmed_tick in every
\* reachable state (ticks compared modulo 2^16 with a signed window).
C15_ClientTickAhead ==
    /\ wrapping_diff(clk.client_tick, clk.prev_tick) >= 0 \/ clk.resync
    /\ wrapping_diff(clk.client_tick, clk.server_confirmed_tick) >= 0

\* --------------------------------------- prediction and rollback (4.E, 4.F)
\* Ticks the client simulates.
MaxPredTicks == 2
\* Confirmed updates the client receives.
MaxConfirms == 2
\* The declared tolerance of the component's comparison.
Tolerance == 1

\* The simulation step: entity 1 moves by the local input, entity 2 follows
\* entity 1 (the two interact, so they form one prediction group).
simulate(world, input) ==
    [e \in Entities |-> IF e = 1 THEN (world[1] + input) % 3
                        ELSE (world[2] + world[1]) % 3]

\* The component's comparison: field-wise with tolerance.
compare(a, b) == a - b <= Tolerance /\ b - a <= Tolerance

\* sample_input -> simulate: the client runs one tick, records the input in the
\* input buffer and the resulting values in PredictedTimeline[tick].
PredSimulate(input) ==
    /\ pred.tick < MaxPredTicks
    /\ pred' = [pred EXCEPT
                  !.tick = @ + 1,
                  !.inputs = Append(@, input),
                  !.predicted = Append(@, simulate(pred.predicted[pred.tick + 1], input)),
                  !.confirmed = Append(@, <<>>),
                  !.reconciled = -1]
    /\ UNCHANGED notPred

\* Re-run the simulation step for each tick from + 1 .. to, feeding the recorded
\* local inputs: the worlds of the ticks from .. to, given the world at from.
RECURSIVE replay(_, _, _, _)
replay(world, from, to, inputs) ==
    IF from >= to THEN <<world>>
    ELSE <<world>> \o replay(simulate(world, inputs[from + 1]), from + 1, to, inputs)

\* A slip that would overwrite PredictedTimeline[T+1..=client_tick] only.
overwrite_after(timeline, t, worlds) ==
    [i \in DOMAIN timeline |-> IF i > t + 1 THEN worlds[i - t] ELSE timeline[i]]

\* Overwrite PredictedTimeline[T..=client_tick] with the new results.
overwrite(timeline, t, worlds) ==
    [i \in DOMAIN timeline |-> IF i >= t + 1 THEN worlds[i - t] ELSE timeline[i]]

\* ConfirmedTimeline[t] of the predicted entities is written with the values
\* the server sent; the reconciliation check compares them with
\* PredictedTimeline[t] and, on any mismatch, restores the world from
\* ConfirmedTimeline[t], sets the cursor to t, replays t + 1 .. client_tick and
\* overwrites the predicted timeline.
PredConfirm(t, update) ==
    /\ pred.confirms < MaxConfirms
    /\ t \in 0..pred.tick
    /\ LET mismatch == \E e \in Entities : ~compare(update[e], pred.predicted[t + 1][e])
       IN pred' = [pred EXCEPT
                     !.confirms = @ + 1,
                     !.confirmed[t + 1] = update,
                     !.reconciled = t,
                     !.rollbacks = IF mismatch THEN @ + 1 ELSE @,
                     !.predicted = IF mismatch
                                   THEN overwrite(@, t, replay(update, t, pred.tick, pred.inputs))
                                   ELSE @]
    /\ UNCHANGED notPred

PredictionInit ==
    /\ transport = "WebTransportClient"
    /\ TransportInit
    /\ CmInit
    /\ RelInit
    /\ ClkInit
    /\ PredInit
    /\ AppInit

PredNext ==
    \/ \E input \in 0..1 : PredSimulate(input)
    \/ \E t \in 0..MaxPredTicks, update \in [Entities -> Values] : PredConfirm(t, update)

PredSpec == PredictionInit /\ [][PredNext]_vars

\* C16: once reconciliation at tick T has finished, PredictedTimeline[T, E]
\* equals ConfirmedTimeline[T, E] up to the declared tolerance, for every
\* predicted entity E.
C16_ReconciledMatchesConfirmed ==
    pred.reconciled # -1 =>
        \A e \in Entities : compare(pred.predicted[pred.reconciled + 1][e],
                                    pred.confirmed[pred.reconciled + 1][e])

\* A rollback to a past tick happened and the replay changed the latest tick.
C16_Witness ==
    /\ pred.reconciled # -1
    /\ pred.reconciled < pred.tick
    /\ pred.rollbacks > 0
    /\ pred.predicted[pred.tick + 1] # pred.confirmed[pred.reconciled + 1]

\* C17: whatever the length of a message the peer delivers, recv() returns
\* normally: it never aborts while copying the message into its buffer.
C17_RecvNeverAborts == last # [op |-> "recv", res |-> "Panic"]

\* C18: on the WebSocket server recv() returns Ok(None) only when the inbound
\* queue holds no datagram: after a recv() that returned None no binary message
\* is left in the queue.
C18_NoneMeansDrained ==
    [][(IsServer /\ SimRecv /\ last'.res = "None")
          => \A i \in DOMAIN inbound' : inbound'[i].kind # "Binary"]_vars

\* C19: on the WebTransport client, under any interleaving of sends and
\* receives, every datagram that arrived was forwarded to the inbound queue
\* exactly once, in order, or is the one the receive task is about to forward
\* (for as long as the simulation keeps the receiver).
C19_ForwardedExactlyOnce ==
    (IsWtClient /\ TransportAlive) =>
        DataOf(arrived) = DataOf(returned) \o DataOf(inbound) \o DataOf(wt_recv)

\* A send was written to the socket while a received datagram was waiting to be
\* forwarded, and an earlier datagram has reached recv().
C19_Witness ==
    /\ IsWtClient /\ TransportAlive
    /\ nsend = 2 /\ outbound[ServerAddr] = <<>>
    /\ Len(arrived) = 2
    /\ Len(returned) = 1 /\ wt_recv # <<>>

\* The payloads send() was called with so far, in call order.
Sent == [i \in 1..nsend |-> i]

\* C20: on both client transports, while the connection is being established
\* every payload passed to send() stays in the outbound queue and nothing is
\* written to the socket; while it is open, what was written followed by what
\* is queued is what was sent, in the order of the send() calls; and what was
\* written is always a prefix of what was sent.
C20_QueuedUntilOpenThenInOrder ==
    ~IsServer =>
        /\ IsPrefix(socket.written, Sent)
        /\ conn[ServerAddr] = "connecting" =>
               (socket.written = <<>> /\ outbound[ServerAddr] = Sent)
        /\ conn[ServerAddr] = "open" =>
               socket.written \o outbound[ServerAddr] = Sent

\* Two payloads were queued when the connection opened, and both were written
\* to the socket afterwards, in send() order.
C20_Witness ==
    /\ ~IsServer
    /\ socket.backlog = 2
    /\ socket.written = <<1, 2>>

\* The step in which the body of send(payload, a) runs: at once, or after the
\* wait for the registry's lock.
SendRuns(a) ==
    /\ nsend' = nsend + 1
    /\ SimSend(a) \/ (SimSendResumes /\ sim.addr = a)

\* C21: on the WebSocket server send() to an address that has no entry in the
\* registry returns Ok(()), enqueues nothing on any queue and leaves the
\* registry unchanged.
C21_SendToUnknownIsNoOp ==
    [][\A a \in PeerAddrs :
          (IsServer /\ SendRuns(a) /\ a \notin registry)
              => /\ last' = [op |-> "send", res |-> "Ok"]
                 /\ outbound' = outbound
                 /\ inbound' = inbound
                 /\ registry' = registry]_vars

\* send() has run on a server no peer has ever been registered with.
C21_Witness ==
    /\ IsServer
    /\ last = [op |-> "send", res |-> "Ok"]
    /\ nsend = 1
    /\ \A a \in PeerAddrs : conn[a] \in {"idle", "pending"}
    /\ registry = {}
    /\ \A a \in AllAddrs : outbound[a] = <<>>

\* The reader or the writer task of peer a's connection has finished.
TaskFinished(a) ==
    \/ task[clientbound_handle(a)] \in {"done", "panicked"}
    \/ task[serverbound_handle(a)] \in {"done", "panicked"}

\* C22: on the WebSocket server an address is in the registry only while the
\* accept task serves its connection, and once the reader or the writer task of
\* a registered connection has finished the entry is eventually removed.
C22_EntryEventuallyRemoved ==
    /\ [](IsServer => \A a \in registry :
              accept_addr = a /\ accept_pc \in {"serving", "closed", "locked_remove"})
    /\ \A a \in PeerAddrs :
          (IsServer /\ a \in registry /\ TaskFinished(a)) ~> (a \notin registry)

\* The step in which the writer task of peer b's connection writes a message
\* to b's socket.
Writes(b) == ClientboundTask(b) /\ outbound[b] # <<>> /\ conn[b] = "open"

\* Every message on a peer's queue, and every message written to a peer's
\* socket, was passed to send() with that peer's address.
WrittenToTarget ==
    /\ [](IsServer => \A b \in PeerAddrs : \A i \in DOMAIN outbound[b] :
                          outbound[b][i].to = b)
    /\ [][\A b \in PeerAddrs : Writes(b) => Head(outbound[b]).to = b]_vars

\* C23 as stated: on the WebSocket server send(payload, A) for a registered
\* address A appends exactly one message with that payload to A's outbound
\* queue and leaves every other queue and the registry unchanged, and a payload
\* sent to A is never written to the socket of another peer.
C23_SendAppendsOne ==
    /\ [][\A a \in PeerAddrs :
             (IsServer /\ SendRuns(a) /\ a \in registry)
                 => /\ outbound'[a] = Append(outbound[a], Payload(a))
                    /\ \A b \in AllAddrs \ {a} : outbound'[b] = outbound[b]
                    /\ registry' = registry]_vars
    /\ WrittenToTarget

\* C23 amended: send(payload, A) for a registered address A either appends
\* exactly one message with that payload to A's outbound queue and returns Ok,
\* or, when the writer task of A's connection has dropped the queue's consumer
\* end, appends nothing and returns Err; in both cases every other queue and
\* the registry are unchanged, and a payload sent to A is never written to the
\* socket of another peer.
C23_SendAppendsOneOrErr ==
    /\ [][\A a \in PeerAddrs :
             (IsServer /\ SendRuns(a) /\ a \in registry)
                 => /\ IF OutboundRxAlive(a)
                       THEN /\ outbound'[a] = Append(outbound[a], Payload(a))
                            /\ last'.res = "Ok"
                       ELSE /\ outbound'[a] = outbound[a]
                            /\ last'.res = "Err"
                    /\ \A b \in AllAddrs \ {a} : outbound'[b] = outbound[b]
                    /\ registry' = registry]_vars
    /\ WrittenToTarget

\* The second payload was sent to the registered peer 1 and is the only message
\* on its queue; no other queue holds anything.
C23_Witness ==
    /\ IsServer
    /\ 1 \in registry
    /\ last = [op |-> "send", res |-> "Ok"]
    /\ outbound[1] = <<[data |-> 2, to |-> 1]>>
    /\ outbound[2] = <<>>

\* C24: on the WebSocket server every datagram recv() returned carries the
\* address of the connection on which it arrived.
C24_ReturnedWithOwnAddress ==
    IsServer =>
        \A i \in DOMAIN returned :
            \E j \in DOMAIN arrived :
                /\ arrived[j].data = returned[i].data
                /\ arrived[j].kind = "Binary"
                /\ arrived[j].addr = returned[i].addr

\* recv() has returned a datagram of peer 1 and a datagram of peer 2.
C24_Witness ==
    /\ IsServer
    /\ \E i, j \in DOMAIN returned : returned[i].addr = 1 /\ returned[j].addr = 2

\* The step in which the WebSocket client's sending task takes a payload from
\* the outbound queue and finds the socket not OPEN.
TakesWhileNotOpen ==
    WsSendTask /\ outbound[ServerAddr] # <<>> /\ ready_state # WsOpenState

\* C25: when the WebSocket client's sending task takes a payload while the
\* socket is not OPEN it writes nothing and stops, and every send() after the
\* task has stopped returns Err and queues nothing.
C25_StoppedTaskClosesQueue ==
    /\ [][TakesWhileNotOpen
             => socket'.written = socket.written /\ task'[SendTask] = "done"]_vars
    /\ [][(IsWsClient /\ task[SendTask] = "done" /\ SendRuns(ServerAddr))
             => last' = [op |-> "send", res |-> "Err"] /\ outbound' = outbound]_vars

\* The sending task stopped on a closed socket and a later send() returned Err.
C25_Witness ==
    /\ IsWsClient
    /\ conn[ServerAddr] = "closed"
    /\ task[SendTask] = "done"
    /\ SendTask \in observed
    /\ socket.written = <<>>
    /\ nsend = 2
    /\ last = [op |-> "send", res |-> "Err"]

\* ------------------------------------------- the example client's frame
\* Runs of the FixedUpdate schedule in one frame, frames in one behaviour, the
\* cap on a velocity component and the connections made in one behaviour.
MaxFixedSteps == 2
MaxAppFrames == 2
MaxVelocity == 2
MaxConnectEvents == 1

\* The systems of the PreUpdate schedule that the example orders.
PreUpdateSystems == {"Receive", "handle_connection", "SpawnPrediction"}

\* A build() that adds handle_connection to PreUpdate without ordering it.
SystemOrderNone == {}

\* handle_connection.after(MainSet::Receive).before(PredictionSet::SpawnPrediction):
\* the pairs <<a, b>> for which a runs before b.
SystemOrder ==
    {<<"Receive", "handle_connection">>, <<"handle_connection", "SpawnPrediction">>}

HasRun(s) == \E i \in DOMAIN app.ran : app.ran[i] = s

\* The scheduler may run s next: any order that respects the declared pairs.
Ready(s) ==
    /\ app.schedule = "PreUpdate"
    /\ ~HasRun(s)
    /\ \A o \in SystemOrder : o[2] = s => HasRun(o[1])

\* MainSet::Receive: the packets of this frame are read; a completed connection
\* emits a ConnectEvent.
MainSetReceive ==
    /\ Ready("Receive")
    /\ \E n \in 0..1 :
          /\ app.emitted + n <= MaxConnectEvents
          /\ app' = [app EXCEPT !.ran = Append(@, "Receive"),
                                !.events = @ + n, !.emitted = @ + n]
    /\ UNCHANGED notApp

\* handle_connection as a system of the frame: for each ConnectEvent read, the
\* text and the two PlayerBundles are spawned.
RunHandleConnection ==
    /\ Ready("handle_connection")
    /\ app' = [app EXCEPT !.ran = Append(@, "handle_connection"),
                          !.players = @ + 2 * app.events, !.events = 0]
    /\ UNCHANGED notApp

\* PredictionSet::SpawnPrediction: the Predicted copies are spawned.
SpawnPrediction ==
    /\ Ready("SpawnPrediction")
    /\ app' = [app EXCEPT !.ran = Append(@, "SpawnPrediction")]
    /\ UNCHANGED notApp

\* PreUpdate is done: the fixed main loop runs FixedUpdate once for every
\* timestep that has accumulated.
RunFixedMainLoop ==
    /\ app.schedule = "PreUpdate"
    /\ \A s \in PreUpdateSystems : HasRun(s)
    /\ \E k \in 0..MaxFixedSteps :
          app' = [app EXCEPT !.schedule = "FixedUpdate", !.fixed = k]
    /\ UNCHANGED notApp

\* shared_movement_behaviour(velocity, action_state): each pressed action
\* accelerates the entity along its axis, and the velocity is capped.
clamp(v) == IF v > MaxVelocity THEN MaxVelocity
            ELSE IF v < -MaxVelocity THEN -MaxVelocity ELSE v
shared_movement_behaviour(velocity, pressed) ==
    LET dx == (IF "Right" \in pressed THEN 1 ELSE 0) - (IF "Left" \in pressed THEN 1 ELSE 0)
        dy == (IF "Up" \in pressed THEN 1 ELSE 0) - (IF "Down" \in pressed THEN 1 ELSE 0)
    IN <<clamp(velocity[1] + dx), clamp(velocity[2] + dy)>>

\* player_movement, in FixedUpdate: for every entity With<Predicted>,
\* if !action_state.get_pressed().is_empty() { shared_movement_behaviour(..) }.
\* The PlayerId is queried but not looked at.
player_movement ==
    /\ app.schedule = "FixedUpdate"
    /\ app.fixed > 0
    /\ app' = [app EXCEPT
                 !.ran = Append(@, "player_movement"),
                 !.fixed = @ - 1,
                 !.entities = [e \in AppEntities |->
                     IF @[e].predicted /\ @[e].pressed # {}
                     THEN [@[e] EXCEPT !.velocity =
                               shared_movement_behaviour(@, app.entities[e].pressed)]
                     ELSE @[e]]]
    /\ UNCHANGED notApp

\* The Update schedule: add_ball_physics, add_player_physics,
\* handle_predicted_spawn, handle_interpolated_spawn.
UpdateSystems ==
    /\ app.schedule = "FixedUpdate"
    /\ app.fixed = 0
    /\ app' = [app EXCEPT !.schedule = "Update"]
    /\ UNCHANGED notApp

\* The frame ends and the next one starts with PreUpdate.
NextFrame ==
    /\ app.schedule = "Update"
    /\ app.frames < MaxAppFrames
    /\ app' = [app EXCEPT !.schedule = "PreUpdate", !.ran = <<>>,
                          !.frames = @ + 1]
    /\ UNCHANGED notApp

ExampleInit ==
    /\ transport = "WebTransportClient"
    /\ TransportInit
    /\ CmInit
    /\ RelInit
    /\ ClkInit
    /\ PredInit
    /\ \E es \in [AppEntities -> EntityStart] : app = AppStart(es)

ExampleNext ==
    \/ MainSetReceive
    \/ RunHandleConnection
    \/ SpawnPrediction
    \/ RunFixedMainLoop
    \/ player_movement
    \/ UpdateSystems
    \/ NextFrame

ExampleSpec == ExampleInit /\ [][ExampleNext]_vars

\* C26: in every fixed-update step player_movement leaves unchanged the
\* velocity of an entity whose PlayerId is not the local client's and of an
\* entity whose action state has no pressed action.
C26_OnlyOwnedEntitiesMove ==
    [][player_movement =>
          \A e \in AppEntities :
              (app.entities[e].player_id # "local" \/ app.entities[e].pressed = {})
                  => app'.entities[e].velocity = app.entities[e].velocity]_vars

\* System a has run in this frame before the i-th system that ran.
RanBefore(a, i) == \E j \in 1..(i - 1) : app.ran[j] = a

\* C27: within one frame handle_connection runs after the receive step and
\* before predicted entities are spawned, every ConnectEvent of the frame has
\* been handled by the time they are spawned, and player_movement runs only in
\* the FixedUpdate schedule and only after the receive step of the same frame.
C27_DeclaredOrder ==
    /\ [](\A i \in DOMAIN app.ran :
             /\ app.ran[i] = "handle_connection"
                   => RanBefore("Receive", i) /\ ~RanBefore("SpawnPrediction", i)
             /\ app.ran[i] = "player_movement" => RanBefore("Receive", i))
    /\ [](HasRun("SpawnPrediction") => app.events = 0)
    /\ [][(Len(app'.ran) = Len(app.ran) + 1
             /\ app'.ran[Len(app'.ran)] = "player_movement")
                => app.schedule = "FixedUpdate"]_vars

\* A frame in which the receive step emitted a ConnectEvent, handle_connection
\* spawned the two players, the predicted entities were spawned and
\* player_movement ran.
C27_Witness ==
    /\ app.ran = <<"Receive", "handle_connection", "SpawnPrediction", "player_movement">>
    /\ app.players = 2

====
